---------------------------- MODULE Spec2Model ----------------------------
(***************************************************************************)
(* Tile addressing, extraction, description and retrieval of the contour  *)
(* tile tooling, and the pipeline that produces the container:             *)
(*   scripts/setup_contour_nginx.py   flip_y, extract_mbtiles_standard,    *)
(*                                    create_tilejson, main                *)
(*   scripts/nginx_test_server.py     NginxLikeTileHandler                 *)
(*   tile_gen_lib/contour_gen.py      lat_lon_to_tile, get_tiles_for_bbox, *)
(*                                    download_terrain_tiles,              *)
(*                                    run_contour_generation               *)
(*                                                                         *)
(* Python strings are modelled as sequences of one-character strings, so   *)
(* that split / rstrip / endswith / str(int) / int(str) / float(str) /     *)
(* json.loads are computed and not assumed.  Floats of the descriptor are  *)
(* kept in hundredths.                                                     *)
(***************************************************************************)
EXTENDS Integers, Sequences, FiniteSets, TLC

VARIABLES
    outDirExists,   \* args.output_dir exists on disk
    tilesDirExists, \* output_dir/tiles exists on disk
    tileFiles,      \* files below output_dir/tiles: <<z, x, "y.pbf">> -> bytes
    metadataJson,   \* output_dir/metadata.json: <<>> when absent, else <<map>>
    nginxConf,      \* output_dir/nginx.conf exists
    tilejsonFile,   \* output_dir/tilejson.json: <<>> when absent, else <<doc>>
    viewerHtml,     \* output_dir/viewer.html exists (placed by the operator)
    pc,             \* position of the setup script's main()
    args,           \* main's parsed arguments and the container they name
    idx,            \* cursor position of the tiles SELECT (next row to fetch)
    metadata,       \* extract_mbtiles_standard's local metadata dict
    prevTiles,      \* history: tileFiles when the running main() was started
    lastReq,        \* path of the last request the server handled
    lastResp,       \* response the server sent to it
    inp,            \* input of the pure function under study
    out,            \* its result
    pipe,           \* run_contour_generation: position, run folders, calls
    hostFiles       \* files of the host outside tiles_dir, by the path from it

vars == <<outDirExists, tilesDirExists, tileFiles, metadataJson, nginxConf,
          tilejsonFile, viewerHtml, pc, args, idx, metadata, prevTiles,
          lastReq, lastResp, inp, out, pipe, hostFiles>>

fsVars == <<outDirExists, tilesDirExists, tileFiles, metadataJson, nginxConf,
            tilejsonFile, viewerHtml>>
mainVars == <<pc, args, idx, metadata, prevTiles>>
reqVars == <<lastReq, lastResp>>
restVars == <<inp, out, pipe, hostFiles>>

----------------------------------------------------------------------------
(* Bounds of the model                                                     *)

\* longest tiles table of a container
MaxRows == 2
\* largest zoom the flip is exercised at
MaxFlipZoom == 6
\* largest zoom the grid bounding boxes are converted at
MaxGeoZoom == 2
\* most path segments of a generated request path
MaxSegs == 4
\* most runs of the extraction into one destination
MaxRuns == 2
\* most calls of run_contour_generation that get as far as a run folder
MaxPipelineRuns == 2

----------------------------------------------------------------------------
(* Python arithmetic and string primitives                                 *)

RECURSIVE Pow2(_)
\* 2 ** n for n >= 0
Pow2(n) == IF n <= 0 THEN 1 ELSE 2 * Pow2(n - 1)

\* int(a / b) for b > 0: truncation toward zero
TruncDiv(a, b) == IF a >= 0 THEN a \div b ELSE -((-a) \div b)

Digits == <<"0", "1", "2", "3", "4", "5", "6", "7", "8", "9">>

RECURSIVE StrNat(_)
StrNat(n) == IF n < 10 THEN <<Digits[n + 1]>>
             ELSE StrNat(n \div 10) \o <<Digits[(n % 10) + 1]>>

\* str(n) of a Python int
StrInt(n) == IF n < 0 THEN <<"-">> \o StrNat(-n) ELSE StrNat(n)

\* s.endswith(suf)
EndsWith(s, suf) ==
    /\ Len(s) >= Len(suf)
    /\ SubSeq(s, Len(s) - Len(suf) + 1, Len(s)) = suf

\* sub in s
Contains(s, sub) ==
    \E i \in 1..(Len(s) - Len(sub) + 1) : SubSeq(s, i, i + Len(sub) - 1) = sub

RECURSIVE RStrip(_, _)
\* s.rstrip(ch)
RStrip(s, ch) ==
    IF s # <<>> /\ s[Len(s)] = ch THEN RStrip(SubSeq(s, 1, Len(s) - 1), ch)
    ELSE s

RECURSIVE SplitAcc(_, _, _, _, _)
SplitAcc(s, sep, i, cur, acc) ==
    IF i > Len(s) THEN Append(acc, cur)
    ELSE IF s[i] = sep THEN SplitAcc(s, sep, i + 1, <<>>, Append(acc, cur))
    ELSE SplitAcc(s, sep, i + 1, Append(cur, s[i]), acc)

\* s.split(sep) for a one-character separator
Split(s, sep) == SplitAcc(s, sep, 1, <<>>, <<>>)

\* parts[-k] of a Python list: IndexError when the list is shorter than k
HasNeg(parts, k) == Len(parts) >= k
Neg(parts, k) == parts[Len(parts) - k + 1]

----------------------------------------------------------------------------
(* setup_contour_nginx.py: the row flip                                    *)

flip_y_off_by_one(zoom, y) == Pow2(zoom) - y

flip_y(zoom, y) == (Pow2(zoom) - 1) - y


----------------------------------------------------------------------------
(* contour_gen.py: geographic coordinates to tile indices                  *)
(*                                                                         *)
(* Longitudes are integers in hundredths of a degree.  On that grid the    *)
(* double expression (lon + 180.0) / 360.0 * n is an integer only when lon *)
(* is a multiple of 11.25 degrees, where the doubles are exact, so int()   *)
(* of it equals the truncated exact quotient.  Latitudes are sample points *)
(* numbered north to south; LatTable holds, for each, the double value of  *)
(* (1.0 - asinh(tan(radians(lat))) / pi) / 2.0 scaled by 2^20 and          *)
(* truncated toward zero, from which int(... * 2^zoom) follows exactly for *)
(* every zoom <= 20.                                                       *)

MercUnit == Pow2(20)

LatTable == <<
    [lat |-> "90.0",              frac |-> -5821554],
    [lat |-> "85.0511287798066",  frac |-> 0],
    [lat |-> "60.0",              frac |-> 304506],
    [lat |-> "50.18",             frac |-> 354801],
    [lat |-> "49.44",             frac |-> 358142],
    [lat |-> "46.5",              frac |-> 370937],
    [lat |-> "45.5",              frac |-> 375130],
    [lat |-> "43.76",             frac |-> 382252],
    [lat |-> "43.71",             frac |-> 382454],
    [lat |-> "0.0",               frac |-> 524288],
    [lat |-> "-60.0",             frac |-> 744069],
    [lat |-> "-85.0511287798066", frac |-> 1048576],
    [lat |-> "-90.0",             frac |-> 6870130] >>

\* index in LatTable of a latitude given by its decimal text
LatIx(txt) == CHOOSE i \in DOMAIN LatTable : LatTable[i].lat = txt

\* latitudes inside the Mercator-projectable range, limits included
MercatorLats == LatIx("85.0511287798066")..LatIx("-85.0511287798066")

\* a conversion that wraps the column around the antimeridian
lat_lon_to_tile_wrapping(lat, lon, zoom) ==
    LET n == Pow2(zoom)
        x == TruncDiv((lon + 18000) * n, 36000) % n
        y == TruncDiv(LatTable[lat].frac, MercUnit \div n)
    IN  <<x, y>>

lat_lon_to_tile(lat, lon, zoom) ==
    LET n == Pow2(zoom)
        x == TruncDiv((lon + 18000) * n, 36000)
        y == TruncDiv(LatTable[lat].frac, MercUnit \div n)
    IN  <<x, y>>

\* the bounding boxes are <<west, south, east, north>>
CONTOUR_AREAS ==
    [monaco |-> <<738, LatIx("43.71"), 745, LatIx("43.76")>>,
     luxembourg |-> <<573, LatIx("49.44"), 653, LatIx("50.18")>>,
     alps_sample |-> <<650, LatIx("45.5"), 750, LatIx("46.5")>>]

EnsureNoOrder(lo, hi) == <<lo, hi>>

\* "Ensure min <= max": the two conditional swaps
EnsureMinMax(lo, hi) == IF lo > hi THEN <<hi, lo>> ELSE <<lo, hi>>

get_tiles_for_bbox(bbox, zoom) ==
    LET west == bbox[1]
        south == bbox[2]
        east == bbox[3]
        north == bbox[4]
        nw == lat_lon_to_tile(north, west, zoom)
        se == lat_lon_to_tile(south, east, zoom)
        xs == EnsureMinMax(nw[1], se[1])
        ys == EnsureMinMax(nw[2], se[2])
        w == IF xs[2] >= xs[1] THEN xs[2] - xs[1] + 1 ELSE 0
        h == IF ys[2] >= ys[1] THEN ys[2] - ys[1] + 1 ELSE 0
    IN  \* for x in range(min_x, max_x + 1): for y in range(min_y, max_y + 1)
        [k \in 1..(w * h) |->
            <<zoom, xs[1] + ((k - 1) \div h), ys[1] + ((k - 1) % h)>>]

----------------------------------------------------------------------------
(* contour_gen.py: run_contour_generation and the steps it calls.  Each    *)
(* subprocess.run is one step whose outcome is the tool's: exit status 0,  *)
(* a non-zero exit status, or no return at all.                            *)

\* the areas the command is asked for: a known one and an unknown one
PipelineAreas == {"monaco", "atlantis"}

\* intervals=[10, 50] of line 342
PipelineIntervals == <<10, 50>>

\* exit status 0 or not
ToolOutcomes == {"ok", "nonzero"}

NoCachedTiles == "RuntimeError: No cached terrain tiles found"
NoTilesDownloaded == "RuntimeError: No terrain tiles downloaded"

\* f'{z}_{x}_{y}.tif' below terrain_tiles
terrain_tile_file(t) == <<"terrain_tiles", ToString(t)>>

\* the terrain tiles of download_terrain_tiles(bbox, run_folder, zoom=10)
terrain_tiles(area) == get_tiles_for_bbox(CONTOUR_AREAS[area], 10)

\* files of a run folder that lie below terrain_tiles
CachedIn(files) == { f \in files : f[1] = "terrain_tiles" }

\* no call of run_contour_generation yet, nothing in config.runs_dir
NoPipeline ==
    [pc |-> "idle",
     area |-> "",
     skip_download |-> FALSE,
     date |-> 0,              \* the run folder's timestamp, as a count
     folders |-> [d \in {} |-> {}],   \* contour_{area}/<date>_contour -> files
     left |-> {},             \* history: terrain tiles on disk at the call
     tile |-> 0,              \* position in the download loop
     tile_files |-> <<>>,
     interval |-> 0,          \* position in the intervals loop
     log |-> <<>>,            \* the subprocess.run calls that returned
     blocked |-> FALSE,       \* a subprocess.run call that never returns
     error |-> "",            \* the exception that left the function
     returned |-> 0]          \* the run folder returned

PipelineEnded == pipe.pc \in {"idle", "done", "failed"}

\* the files of the current run folder
RunFiles == pipe.folders[pipe.date]

\* the current run folder with the file added (removed)
WithFile(f) == [pipe.folders EXCEPT ![pipe.date] = @ \cup {f}]
WithoutFile(f) == [pipe.folders EXCEPT ![pipe.date] = @ \ {f}]

\* an exception leaves run_contour_generation
Raise(p, e) == [p EXCEPT !.pc = "failed", !.error = e]

\* a subprocess.run call has returned with this outcome
Logged(tool, outcome) == Append(pipe.log, <<tool, outcome>>)

\* cleanup_folder(subdir) for every run folder, then shutil.rmtree(area_dir):
\* nothing of the area's earlier runs stays
cleanup_previous_runs(folders) == [d \in {} |-> {}]

\* lines 297-321: check the area, clean up previous runs, make the run folder
PipeStart(area, skip_download) ==
    /\ PipelineEnded
    /\ ~pipe.blocked
    /\ pipe.date < MaxPipelineRuns
    /\ IF area \notin DOMAIN CONTOUR_AREAS
       THEN pipe' = Raise([pipe EXCEPT !.area = area,
                                       !.skip_download = skip_download,
                                       !.left = {},
                                       !.log = <<>>, !.returned = 0],
                          "ValueError")
       ELSE pipe' = [pipe EXCEPT
                !.pc = IF skip_download THEN "cached" ELSE "download",
                !.area = area,
                !.skip_download = skip_download,
                !.date = pipe.date + 1,
                !.folders =
                    LET kept == cleanup_previous_runs(pipe.folders)
                    IN  [d \in DOMAIN kept \cup {pipe.date + 1} |->
                            IF d = pipe.date + 1 THEN {} ELSE kept[d]],
                !.left = UNION { CachedIn(pipe.folders[d]) : d \in DOMAIN pipe.folders },
                !.tile = 1,
                !.tile_files = <<>>,
                !.interval = 1,
                !.log = <<>>,
                !.error = "",
                !.returned = 0]
    /\ UNCHANGED <<fsVars, mainVars, reqVars, inp, out, hostFiles>>

\* lines 327-331: skip_download looks for terrain tiles in the run folder
PipeUseCached ==
    /\ pipe.pc = "cached"
    /\ LET tile_files == CachedIn(RunFiles)
       IN  pipe' = IF tile_files = {}
                   THEN Raise(pipe, NoCachedTiles)
                   ELSE [pipe EXCEPT !.pc = "mosaic"]
    /\ UNCHANGED <<fsVars, mainVars, reqVars, inp, out, hostFiles>>

\* download_terrain_tiles, lines 88-109: one pass of the loop.  A tile that
\* is there is skipped; a curl that fails is a warning and the loop goes on
PipeDownloadTile(outcome) ==
    /\ pipe.pc = "download"
    /\ ~pipe.blocked
    /\ pipe.tile <= Len(terrain_tiles(pipe.area))
    /\ LET output_file == terrain_tile_file(terrain_tiles(pipe.area)[pipe.tile])
       IN  pipe' =
             IF output_file \in RunFiles
             THEN [pipe EXCEPT !.tile = @ + 1,
                               !.tile_files = Append(@, output_file)]
             ELSE IF outcome = "ok"
             THEN [pipe EXCEPT !.tile = @ + 1,
                               !.folders = WithFile(output_file),
                               !.tile_files = Append(@, output_file),
                               !.log = Logged("curl", outcome)]
             ELSE [pipe EXCEPT !.tile = @ + 1,
                               !.folders = WithoutFile(output_file),
                               !.log = Logged("curl", outcome)]
    /\ UNCHANGED <<fsVars, mainVars, reqVars, inp, out, hostFiles>>

\* lines 111-112 and 333-334: the loop is over
PipeDownloadDone ==
    /\ pipe.pc = "download"
    /\ ~pipe.blocked
    /\ pipe.tile > Len(terrain_tiles(pipe.area))
    /\ pipe' = IF pipe.tile_files = <<>>
               THEN Raise(pipe, NoTilesDownloaded)
               ELSE [pipe EXCEPT !.pc = "mosaic"]
    /\ UNCHANGED <<fsVars, mainVars, reqVars, inp, out, hostFiles>>

\* a step that is one subprocess.run(..., check=True): the tool's file and
\* the next position when it exits with 0, CalledProcessError otherwise
ToolStep(at, tool, outcome, file, next) ==
    /\ pipe.pc = at
    /\ ~pipe.blocked
    /\ pipe' = IF outcome = "ok"
               THEN [pipe EXCEPT !.pc = next,
                                 !.folders = WithFile(file),
                                 !.log = Logged(tool, outcome)]
               ELSE Raise([pipe EXCEPT !.log = Logged(tool, outcome)],
                          "CalledProcessError")
    /\ UNCHANGED <<fsVars, mainVars, reqVars, inp, out, hostFiles>>

\* merge_terrain_tiles, lines 129-130
PipeMosaic(outcome) ==
    /\ pipe.pc = "mosaic"
    /\ ToolStep("mosaic", "gdalbuildvrt", outcome, <<"", "terrain.vrt">>, "warp")

\* generate_contours, lines 157-174
PipeWarp(outcome) ==
    /\ pipe.pc = "warp"
    /\ ToolStep("warp", "gdalwarp", outcome,
                <<"contours", "terrain_wgs84.tif">>, "contour")

\* generate_contours, lines 178-203: one pass of the intervals loop
PipeContour(outcome) ==
    /\ pipe.pc = "contour"
    /\ ~pipe.blocked
    /\ pipe' = IF outcome = "ok"
               THEN [pipe EXCEPT
                        !.pc = IF pipe.interval = Len(PipelineIntervals)
                               THEN "tippecanoe" ELSE "contour",
                        !.interval = @ + 1,
                        !.folders = WithFile(<<"contours",
                                    ToString(PipelineIntervals[pipe.interval])>>),
                        !.log = Logged("gdal_contour", outcome)]
               ELSE Raise([pipe EXCEPT !.log = Logged("gdal_contour", outcome)],
                          "CalledProcessError")
    /\ UNCHANGED <<fsVars, mainVars, reqVars, inp, out, hostFiles>>

\* run_tippecanoe, lines 244-249
PipeTippecanoe(outcome) ==
    /\ pipe.pc = "tippecanoe"
    /\ ToolStep("tippecanoe", "tippecanoe", outcome, <<"", "tiles.mbtiles">>,
                "metadata")

\* add_contour_metadata, line 349
PipeAddMetadata ==
    /\ pipe.pc = "metadata"
    /\ pipe' = [pipe EXCEPT !.pc = "osm_date"]
    /\ UNCHANGED <<fsVars, mainVars, reqVars, inp, out, hostFiles>>

\* lines 352-358: write the osm_date file and return the run folder
PipeWriteOsmDate ==
    /\ pipe.pc = "osm_date"
    /\ pipe' = [pipe EXCEPT !.pc = "done",
                            !.folders = WithFile(<<"", "osm_date">>),
                            !.returned = pipe.date]
    /\ UNCHANGED <<fsVars, mainVars, reqVars, inp, out, hostFiles>>

\* the positions that wait in subprocess.run, which is called without a
\* timeout
AtSubprocess ==
    \/ pipe.pc \in {"mosaic", "warp", "contour", "tippecanoe"}
    \/ /\ pipe.pc = "download"
       /\ pipe.tile <= Len(terrain_tiles(pipe.area))
       /\ terrain_tile_file(terrain_tiles(pipe.area)[pipe.tile]) \notin RunFiles

\* the tool never exits: subprocess.run never returns
PipeToolNeverReturns ==
    /\ AtSubprocess
    /\ ~pipe.blocked
    /\ pipe' = [pipe EXCEPT !.blocked = TRUE]
    /\ UNCHANGED <<fsVars, mainVars, reqVars, inp, out, hostFiles>>

----------------------------------------------------------------------------
(* nginx_test_server.py: NginxLikeTileHandler                              *)

sSlash == "/"
sTilesPrefix == <<"/", "t", "i", "l", "e", "s", "/">>
sContoursPrefix == <<"/", "c", "o", "n", "t", "o", "u", "r", "s", "/">>
sPbf == <<".", "p", "b", "f">>
sRoot == <<"/">>
sIndexHtml == <<"/", "i", "n", "d", "e", "x", ".", "h", "t", "m", "l">>
sViewerHtml == <<"/", "v", "i", "e", "w", "e", "r", ".", "h", "t", "m", "l">>
sTilejsonJson == <<"/", "t", "i", "l", "e", "j", "s", "o", "n", ".", "j", "s", "o", "n">>
sContours == <<"/", "c", "o", "n", "t", "o", "u", "r", "s">>
sDot == <<".">>
sDotDot == <<".", ".">>

RECURSIVE CutAt(_, _, _)
CutAt(s, stops, i) ==
    IF i > Len(s) THEN s
    ELSE IF s[i] \in stops THEN SubSeq(s, 1, i - 1)
    ELSE CutAt(s, stops, i + 1)

\* urlparse(self.path).path for a request target that starts with one "/"
\* and holds no ";": the query and the fragment are cut off
urlparse_path(target) == CutAt(target, {"?", "#"}, 1)

\* http.server's send_error: status line, error headers, HTML error page
send_error(code, message) ==
    [status |-> code,
     headers |-> << <<"Content-Type", "text/html;charset=utf-8">>,
                    <<"Connection", "close">> >>,
     entity |-> "error page",
     message |-> message,
     body |-> <<>>]

\* tiles_dir / z / x / f'{y}.pbf' as pathlib joins it: "" and "." segments
\* vanish, ".." segments stay and are resolved by the file system
tile_path(z, x, y) ==
    SelectSeq(<<z, x, y \o sPbf>>, LAMBDA c : c # <<>> /\ c # sDot)

\* the directory named by the segments d exists below tiles_dir: some file
\* of the tree lies in it
DirExists(tiles, d) ==
    \E k \in DOMAIN tiles : Len(k) > Len(d) /\ SubSeq(k, 1, Len(d)) = d

RECURSIVE ResolveAcc(_, _, _, _)
\* the file system walks the path from tiles_dir: ".." leaves a directory
\* that exists, climbs above tiles_dir, and from output_dir the name "tiles"
\* leads back into tiles_dir
ResolveAcc(tiles, p, i, at) ==
    IF i > Len(p) THEN [ok |-> TRUE, path |-> at]
    ELSE IF p[i] = sDotDot
         THEN IF at = <<>> \/ at[Len(at)] = sDotDot
              THEN ResolveAcc(tiles, p, i + 1, Append(at, sDotDot))
              ELSE IF DirExists(tiles, at)
                   THEN ResolveAcc(tiles, p, i + 1, SubSeq(at, 1, Len(at) - 1))
                   ELSE [ok |-> FALSE, path |-> <<>>]
         ELSE IF at = <<sDotDot>> /\ p[i] = <<"t", "i", "l", "e", "s">>
              THEN ResolveAcc(tiles, p, i + 1, <<>>)
              ELSE ResolveAcc(tiles, p, i + 1, Append(at, p[i]))

\* the place the path leads to, as the path from tiles_dir without detours
Resolve(tiles, p) == ResolveAcc(tiles, p, 1, <<>>)

\* tile_path.exists(): the path leads to a file of the host
tile_path_exists(tiles, p) ==
    LET r == Resolve(tiles, p)
    IN  r.ok /\ r.path \in DOMAIN tiles

\* open(tile_path, 'rb').read()
read_tile(tiles, p) == tiles[Resolve(tiles, p).path]

serve_tile_always_gzip(tiles, z, x, y) ==
    LET p == tile_path(z, x, y)
        data == IF tile_path_exists(tiles, p) THEN read_tile(tiles, p) ELSE <<>>
    IN  [status |-> 200,
         headers |-> << <<"Content-Type", "application/vnd.mapbox-vector-tile">>,
                        <<"Content-Encoding", "gzip">>,
                        <<"Access-Control-Allow-Origin", "*">>,
                        <<"Cache-Control", "public, max-age=31536000">>,
                        <<"X-OFM-Debug", <<"tile", z, x, y>> >>,
                        <<"Content-Length", StrInt(Len(data))>> >>,
         entity |-> "tile",
         message |-> <<>>,
         body |-> data]

serve_tile(tiles, z, x, y) ==
    LET p == tile_path(z, x, y)
    IN  IF tile_path_exists(tiles, p)
        THEN LET data == read_tile(tiles, p)
             IN  [status |-> 200,
                  headers |-> << <<"Content-Type", "application/vnd.mapbox-vector-tile">>,
                                 <<"Content-Encoding", "gzip">>,
                                 <<"Access-Control-Allow-Origin", "*">>,
                                 <<"Cache-Control", "public, max-age=31536000">>,
                                 <<"X-OFM-Debug", <<"tile", z, x, y>> >>,
                                 <<"Content-Length", StrInt(Len(data))>> >>,
                  entity |-> "tile",
                  message |-> <<>>,
                  body |-> data]
        ELSE [status |-> 200,
              headers |-> << <<"Content-Type", "application/vnd.mapbox-vector-tile">>,
                             <<"Access-Control-Allow-Origin", "*">>,
                             <<"Cache-Control", "public, max-age=31536000">>,
                             <<"X-OFM-Debug", <<"empty tile">> >>,
                             <<"Content-Length", StrInt(0)>> >>,
              entity |-> "empty tile",
              message |-> <<>>,
              body |-> <<>>]

\* serve_file: static_dir is the parent of tiles_dir, the output directory;
\* the body is the file's bytes, named here by the file
serve_file(present, filename, content_type) ==
    IF present
    THEN [status |-> 200,
          headers |-> << <<"Content-Type", content_type>>,
                         <<"Access-Control-Allow-Origin", "*">>,
                         <<"Content-Length", <<"len(data)">> >> >>,
          entity |-> filename,
          message |-> <<>>,
          body |-> <<>>]
    ELSE send_error(404, <<filename, " not found">>)

\* do_GET on the request target, against the tile tree `tiles` and the
\* static files of which `statics` tells the presence
do_GET(tiles, statics, target) ==
    LET path == urlparse_path(target)
    IN  IF Contains(path, sTilesPrefix) \/ Contains(path, sContoursPrefix)
        THEN LET parts == Split(RStrip(path, sSlash), sSlash)
             IN  IF ~HasNeg(parts, 3)
                 THEN send_error(404, <<"Tile not found">>)      \* IndexError
                 ELSE LET y_pbf == Neg(parts, 1)
                          x == Neg(parts, 2)
                          z == Neg(parts, 3)
                      IN  IF EndsWith(y_pbf, sPbf)
                          THEN serve_tile(tiles, z, x,
                                          SubSeq(y_pbf, 1, Len(y_pbf) - 4))
                          ELSE send_error(404, <<"Tile not found">>)
        ELSE IF path = sRoot \/ path = sIndexHtml \/ path = sViewerHtml
        THEN serve_file(statics.viewer, "viewer.html", "text/html")
        ELSE IF path = sTilejsonJson \/ path = sContours
        THEN serve_file(statics.tilejson, "tilejson.json", "application/json")
        ELSE send_error(404, <<"Not Found">>)

\* do_OPTIONS: the CORS preflight
do_OPTIONS ==
    [status |-> 200,
     headers |-> << <<"Access-Control-Allow-Origin", "*">>,
                    <<"Access-Control-Allow-Methods", "GET, OPTIONS">>,
                    <<"Access-Control-Allow-Headers", "Content-Type">> >>,
     entity |-> "",
     message |-> <<>>,
     body |-> <<>>]

----------------------------------------------------------------------------
(* setup_contour_nginx.py: containers, extraction, main                    *)

EmptyMap == [k \in {} |-> ""]

\* an insertion that appends to what the key already holds
Put_appending(f, k, v) ==
    [j \in (DOMAIN f) \cup {k} |->
        IF j = k THEN (IF k \in DOMAIN f THEN f[k] \o v ELSE v) ELSE f[j]]

\* f with the key k set to v (dict / directory insertion)
Put(f, k, v) == [j \in (DOMAIN f) \cup {k} |-> IF j = k THEN v ELSE f[j]]

\* a lookup that never consults the dict
Get_default_only(d, k, default) == default

\* d.get(k, default)
Get(d, k, default) == IF k \in DOMAIN d THEN d[k] ELSE default

NoFiles == [k \in {} |-> <<>>]

\* tile addresses <<zoom_level, tile_column, tile_row>> of the sample rows
Addresses == { <<5, 10, 3>>, <<1, 0, 0>> }

\* tile_data values
Blobs == { <<1>>, <<2, 3>> }

\* rows of the tiles table: <<zoom_level, tile_column, tile_row, tile_data>>
Rows == { <<a[1], a[2], a[3], b>> : a \in Addresses, b \in Blobs }

\* contents of the metadata table, as the dict built from its rows
Metadatas ==
    { [name |-> "OpenFreeMap Contours", format |-> "pbf", type |-> "overlay"] }

\* the tiles table has no key: any sequence of rows is a table
Containers ==
    { [tiles |-> t, metadata |-> m] :
        t \in UNION { [1..n -> Rows] : n \in 0..MaxRows }, m \in Metadatas }

NoContainer == [tiles |-> <<>>, metadata |-> EmptyMap]

\* tiles_dir / str(z) / str(x) / f'{y}.pbf', relative to tiles_dir
extract_tile_path(row) ==
    <<StrInt(row[1]), StrInt(row[2]), StrInt(flip_y(row[1], row[3])) \o sPbf>>

\* any(args.output_dir.iterdir())
OutputNotEmpty ==
    \/ tilesDirExists
    \/ metadataJson # <<>>
    \/ nginxConf
    \/ tilejsonFile # <<>>
    \/ viewerHtml

\* the files the server's static_dir offers
Statics == [viewer |-> viewerHtml, tilejson |-> tilejsonFile # <<>>]

\* value of a decimal digit character
DigitVal(c) == CHOOSE d \in 0..9 : Digits[d + 1] = c

IsDigit(c) == \E d \in 1..10 : Digits[d] = c

RECURSIVE LStrip(_, _)
\* s.lstrip(ch)
LStrip(s, ch) == IF s # <<>> /\ s[1] = ch THEN LStrip(Tail(s), ch) ELSE s

\* s.strip() for texts whose only whitespace is the space
Strip(s) == RStrip(LStrip(s, " "), " ")

RECURSIVE NatOf(_)
\* the number written by a sequence of decimal digits
NatOf(ds) == IF ds = <<>> THEN 0
             ELSE 10 * NatOf(SubSeq(ds, 1, Len(ds) - 1)) + DigitVal(ds[Len(ds)])

AllDigits(ds) == \A i \in 1..Len(ds) : IsDigit(ds[i])

\* int(text): surrounding whitespace, an optional sign, one or more digits;
\* anything else raises ValueError
ParseInt(text) ==
    LET s == Strip(text)
        signed == s # <<>> /\ s[1] \in {"-", "+"}
        ds == IF signed THEN Tail(s) ELSE s
    IN  IF ds # <<>> /\ AllDigits(ds)
        THEN [raised |-> "",
              value |-> IF signed /\ s[1] = "-" THEN -NatOf(ds) ELSE NatOf(ds)]
        ELSE [raised |-> "ValueError", value |-> 0]

\* float(text) for decimal literals without exponent: surrounding whitespace,
\* an optional sign, digits with an optional point.  The value is kept in
\* hundredths (exact for at most two fraction digits, the third and later
\* digits are dropped); anything else raises ValueError
ParseFloat(text) ==
    LET s == Strip(text)
        signed == s # <<>> /\ s[1] \in {"-", "+"}
        body == IF signed THEN Tail(s) ELSE s
        parts == Split(body, ".")
        ip == parts[1]
        fp == IF Len(parts) = 2 THEN parts[2] ELSE <<>>
        f2 == SubSeq(fp \o <<"0", "0">>, 1, 2)
        mag == 100 * NatOf(ip) + NatOf(f2)
    IN  IF /\ Len(parts) <= 2
           /\ AllDigits(ip) /\ AllDigits(fp)
           /\ ip \o fp # <<>>
        THEN [raised |-> "",
              value |-> IF signed /\ s[1] = "-" THEN -mag ELSE mag]
        ELSE [raised |-> "ValueError", value |-> 0]

\* [float(x) for x in text.split(',')]: the first field that does not parse
\* raises ValueError
FloatList(text) ==
    LET fields == Split(text, ",")
        parsed == [i \in 1..Len(fields) |-> ParseFloat(fields[i])]
    IN  IF \E i \in 1..Len(fields) : parsed[i].raised # ""
        THEN [raised |-> "ValueError", value |-> <<>>]
        ELSE [raised |-> "", value |-> [i \in 1..Len(fields) |-> parsed[i].value]]

\* json.loads: the values a JSON text decodes to.  t is the Python type,
\* n the number, s the string, keys/items the dict's keys and values or the
\* list's items
JValue(t, n, s, keys, items) ==
    [t |-> t, n |-> n, s |-> s, keys |-> keys, items |-> items]
JNone == JValue("NoneType", 0, <<>>, <<>>, <<>>)
JList(items) == JValue("list", 0, <<>>, <<>>, items)

JFail == [ok |-> FALSE, val |-> JNone, next |-> 0]
JOk(v, next) == [ok |-> TRUE, val |-> v, next |-> next]

\* the character at position i, or a marker past the end of the text
At(s, i) == IF i >= 1 /\ i <= Len(s) THEN s[i] ELSE "EOF"

RECURSIVE SkipWs(_, _)
SkipWs(s, i) == IF At(s, i) = " " THEN SkipWs(s, i + 1) ELSE i

RECURSIVE DigitsEnd(_, _)
\* the position after the run of digits that starts at i
DigitsEnd(s, i) == IF IsDigit(At(s, i)) THEN DigitsEnd(s, i + 1) ELSE i

RECURSIVE QuoteAt(_, _)
\* the position of the next double quote at or after i, 0 when there is none
QuoteAt(s, i) == IF i > Len(s) THEN 0
                 ELSE IF s[i] = "\"" THEN i
                 ELSE QuoteAt(s, i + 1)

HasLiteral(s, i, lit) ==
    i + Len(lit) - 1 <= Len(s) /\ SubSeq(s, i, i + Len(lit) - 1) = lit

\* a string without escapes that opens at position i
ParseString(s, i) ==
    LET q == QuoteAt(s, i + 1)
    IN  IF At(s, i) = "\"" /\ q # 0
        THEN JOk(JValue("str", 0, SubSeq(s, i + 1, q - 1), <<>>, <<>>), q + 1)
        ELSE JFail

\* an integer: an optional minus, then 0 or a run of digits not led by 0
ParseNumber(s, i) ==
    LET d == IF At(s, i) = "-" THEN i + 1 ELSE i
        e == IF At(s, d) = "0" THEN d + 1 ELSE DigitsEnd(s, d)
        n == NatOf(SubSeq(s, d, e - 1))
    IN  IF e > d
        THEN JOk(JValue("int", IF d > i THEN -n ELSE n, <<>>, <<>>, <<>>), e)
        ELSE JFail

RECURSIVE ParseValue(_, _)
RECURSIVE ParseElems(_, _, _)
RECURSIVE ParseMembers(_, _, _, _)

\* the value that starts at or after position i
ParseValue(s, i0) ==
    LET i == SkipWs(s, i0)
        c == At(s, i)
    IN  CASE c = "n" -> IF HasLiteral(s, i, <<"n", "u", "l", "l">>)
                        THEN JOk(JNone, i + 4) ELSE JFail
          [] c = "t" -> IF HasLiteral(s, i, <<"t", "r", "u", "e">>)
                        THEN JOk(JValue("bool", 1, <<>>, <<>>, <<>>), i + 4) ELSE JFail
          [] c = "f" -> IF HasLiteral(s, i, <<"f", "a", "l", "s", "e">>)
                        THEN JOk(JValue("bool", 0, <<>>, <<>>, <<>>), i + 5) ELSE JFail
          [] c = "\"" -> ParseString(s, i)
          [] c = "-" \/ IsDigit(c) -> ParseNumber(s, i)
          [] c = "[" -> IF At(s, SkipWs(s, i + 1)) = "]"
                        THEN JOk(JList(<<>>), SkipWs(s, i + 1) + 1)
                        ELSE ParseElems(s, i + 1, <<>>)
          [] c = "{" -> IF At(s, SkipWs(s, i + 1)) = "}"
                        THEN JOk(JValue("dict", 0, <<>>, <<>>, <<>>), SkipWs(s, i + 1) + 1)
                        ELSE ParseMembers(s, i + 1, <<>>, <<>>)
          [] OTHER -> JFail

\* the items of a list after "[" or ","
ParseElems(s, i, acc) ==
    LET r == ParseValue(s, i)
        j == SkipWs(s, r.next)
    IN  IF ~r.ok THEN JFail
        ELSE IF At(s, j) = "," THEN ParseElems(s, j + 1, Append(acc, r.val))
        ELSE IF At(s, j) = "]" THEN JOk(JList(Append(acc, r.val)), j + 1)
        ELSE JFail

\* the members of an object after "{" or ","
ParseMembers(s, i, keys, acc) ==
    LET k == ParseString(s, SkipWs(s, i))
        colon == SkipWs(s, k.next)
        r == ParseValue(s, colon + 1)
        j == SkipWs(s, r.next)
    IN  IF ~k.ok \/ At(s, colon) # ":" THEN JFail
        ELSE IF ~r.ok THEN JFail
        ELSE IF At(s, j) = ","
             THEN ParseMembers(s, j + 1, Append(keys, k.val.s), Append(acc, r.val))
        ELSE IF At(s, j) = "}"
             THEN JOk(JValue("dict", 0, <<>>, Append(keys, k.val.s),
                         Append(acc, r.val)), j + 1)
        ELSE JFail

\* json.loads(text): the decoded value, or JSONDecodeError when the text is
\* not one JSON value
json_loads(text) ==
    LET r == ParseValue(text, 1)
    IN  IF r.ok /\ SkipWs(text, r.next) = Len(text) + 1
        THEN [raised |-> "", value |-> r.val]
        ELSE [raised |-> "JSONDecodeError", value |-> JNone]

\* obj.get(key, default) of a decoded value: a dict answers with the value of
\* the last member of that name, any other type has no get (AttributeError)
json_get(obj, key, default) ==
    IF obj.t # "dict" THEN [raised |-> "AttributeError", value |-> default]
    ELSE LET hits == { i \in 1..Len(obj.keys) : obj.keys[i] = key }
         IN  IF hits = {} THEN [raised |-> "", value |-> default]
             ELSE [raised |-> "",
                   value |-> obj.items[CHOOSE i \in hits : \A j \in hits : j <= i]]

sVectorLayers == <<"v", "e", "c", "t", "o", "r", "_", "l", "a", "y", "e", "r", "s">>
sDefaultBounds == <<"-", "1", "8", "0", ",", "-", "8", "5", ",", "1", "8", "0", ",", "8", "5">>
sDefaultCenter == <<"0", ",", "0", ",", "2">>

NoRaise(v) == [raised |-> "", value |-> v]

\* the first exception raised by a sequence of evaluations, "" when none
RECURSIVE FirstRaised(_)
FirstRaised(rs) == IF rs = <<>> THEN ""
                   ELSE IF rs[1].raised # "" THEN rs[1].raised
                   ELSE FirstRaised(Tail(rs))

\* create_tilejson, lines 118-140: the descriptor, or the exception that left
\* the function before the file was opened.  Floats are in hundredths.
create_tilejson(md, base_url) ==
    LET json_meta == json_loads(md["json"])
        vector_layers ==
            IF "json" \notin DOMAIN md THEN NoRaise(JList(<<>>))
            ELSE IF json_meta.raised = "JSONDecodeError" THEN NoRaise(JList(<<>>))
            ELSE json_get(json_meta.value, sVectorLayers, JList(<<>>))
        minzoom == IF "minzoom" \in DOMAIN md THEN ParseInt(md["minzoom"])
                   ELSE NoRaise(0)
        maxzoom == IF "maxzoom" \in DOMAIN md THEN ParseInt(md["maxzoom"])
                   ELSE NoRaise(14)
        bounds == FloatList(Get(md, "bounds", sDefaultBounds))
        center == FloatList(Get(md, "center", sDefaultCenter))
    IN  [raised |-> FirstRaised(<<vector_layers, minzoom, maxzoom, bounds, center>>),
         tilejson |->
            [tilejson |-> "3.0.0",
             name |-> Get(md, "name", "Contour Tiles"),
             description |-> Get(md, "description", "Elevation contour lines"),
             version |-> Get(md, "version", "1.0.0"),
             attribution |-> Get(md, "attribution", ""),
             scheme |-> "xyz",
             tiles |-> << <<base_url, "/{z}/{x}/{y}.pbf">> >>,
             minzoom |-> minzoom.value,
             maxzoom |-> maxzoom.value,
             bounds |-> bounds.value,
             center |-> center.value,
             vector_layers |-> vector_layers.value]]

\* --base-url default
DefaultBaseUrl == "http://localhost:8080/contours"

\* where main has left: sys.exit at line 171, sys.exit at line 179, or an
\* exception nobody catches
Exits == {"exit_input_missing", "exit_not_empty", "exit_uncaught"}

Running == pc \notin {"idle", "done"} \cup Exits

NoRequest == [method |-> "", target |-> <<>>]
NoResponse == [status |-> 0, headers |-> <<>>, entity |-> "", message |-> <<>>,
               body |-> <<>>]

\* main, lines 148-171: parse the arguments, check that the container exists
MainStart(c, exists, force) ==
    /\ ~Running
    /\ args' = [mbtiles |-> IF exists THEN c ELSE NoContainer,
                exists |-> exists, force |-> force,
                base_url |-> DefaultBaseUrl]
    /\ pc' = IF exists THEN "check_output" ELSE "exit_input_missing"
    /\ prevTiles' = tileFiles
    /\ idx' = 0
    /\ metadata' = EmptyMap
    /\ lastReq' = NoRequest
    /\ lastResp' = NoResponse
    /\ UNCHANGED <<fsVars, restVars>>

\* a preparation that removes a non-empty output directory without --force
MainPrepare_ignoring_force ==
    /\ pc = "check_output"
    /\ IF outDirExists /\ OutputNotEmpty
       THEN IF TRUE
            THEN /\ tilesDirExists' = FALSE        \* shutil.rmtree
                 /\ tileFiles' = NoFiles
                 /\ metadataJson' = <<>>
                 /\ nginxConf' = FALSE
                 /\ tilejsonFile' = <<>>
                 /\ viewerHtml' = FALSE
                 /\ outDirExists' = TRUE           \* mkdir
                 /\ pc' = "extract"
            ELSE /\ pc' = "exit_not_empty"         \* sys.exit
                 /\ UNCHANGED fsVars
       ELSE /\ outDirExists' = TRUE
            /\ pc' = "extract"
            /\ UNCHANGED <<tilesDirExists, tileFiles, metadataJson, nginxConf,
                           tilejsonFile, viewerHtml>>
    /\ UNCHANGED <<args, idx, metadata, prevTiles, reqVars, restVars>>

\* main, lines 173-181: refuse or remove a non-empty output directory, mkdir
MainPrepare ==
    /\ pc = "check_output"
    /\ IF outDirExists /\ OutputNotEmpty
       THEN IF args.force
            THEN /\ tilesDirExists' = FALSE        \* shutil.rmtree
                 /\ tileFiles' = NoFiles
                 /\ metadataJson' = <<>>
                 /\ nginxConf' = FALSE
                 /\ tilejsonFile' = <<>>
                 /\ viewerHtml' = FALSE
                 /\ outDirExists' = TRUE           \* mkdir
                 /\ pc' = "extract"
            ELSE /\ pc' = "exit_not_empty"         \* sys.exit
                 /\ UNCHANGED fsVars
       ELSE /\ outDirExists' = TRUE
            /\ pc' = "extract"
            /\ UNCHANGED <<tilesDirExists, tileFiles, metadataJson, nginxConf,
                           tilejsonFile, viewerHtml>>
    /\ UNCHANGED <<args, idx, metadata, prevTiles, reqVars, restVars>>

\* extract_mbtiles_standard, lines 34-48: mkdir tiles, read the metadata,
\* count, open the cursor
ExtractBegin ==
    /\ pc = "extract"
    /\ tilesDirExists' = TRUE
    /\ metadata' = args.mbtiles.metadata
    /\ idx' = 1
    /\ pc' = IF args.mbtiles.tiles = <<>> THEN "write_metadata" ELSE "row_open"
    /\ UNCHANGED <<outDirExists, tileFiles, metadataJson, nginxConf,
                   tilejsonFile, viewerHtml, args, prevTiles, reqVars, restVars>>

\* lines 51-60: fetch the next row, flip, mkdir the parents, open(..., 'wb')
\* which creates the file empty or truncates the one that is there
ExtractRowOpen ==
    /\ pc = "row_open"
    /\ tileFiles' = Put(tileFiles, extract_tile_path(args.mbtiles.tiles[idx]), <<>>)
    /\ pc' = "row_write"
    /\ UNCHANGED <<outDirExists, tilesDirExists, metadataJson, nginxConf,
                   tilejsonFile, viewerHtml, args, idx, metadata, prevTiles,
                   reqVars, restVars>>

\* lines 61-65: write tile_data, close, count
ExtractRowWrite ==
    /\ pc = "row_write"
    /\ LET row == args.mbtiles.tiles[idx]
       IN  tileFiles' = Put(tileFiles, extract_tile_path(row), row[4])
    /\ idx' = idx + 1
    /\ pc' = IF idx < Len(args.mbtiles.tiles) THEN "row_open" ELSE "write_metadata"
    /\ UNCHANGED <<outDirExists, tilesDirExists, metadataJson, nginxConf,
                   tilejsonFile, viewerHtml, args, metadata, prevTiles,
                   reqVars, restVars>>

\* lines 67-75: close the container, write metadata.json, return the dict
ExtractWriteMetadata ==
    /\ pc = "write_metadata"
    /\ metadataJson' = <<metadata>>
    /\ pc' = "nginx_conf"
    /\ UNCHANGED <<outDirExists, tilesDirExists, tileFiles, nginxConf,
                   tilejsonFile, viewerHtml, args, idx, metadata, prevTiles,
                   reqVars, restVars>>

\* main, lines 193-199: write nginx.conf
MainWriteNginxConf ==
    /\ pc = "nginx_conf"
    /\ nginxConf' = TRUE
    /\ pc' = "tilejson"
    /\ UNCHANGED <<outDirExists, tilesDirExists, tileFiles, metadataJson,
                   tilejsonFile, viewerHtml, args, idx, metadata, prevTiles,
                   reqVars, restVars>>

\* main, lines 202-220: write tilejson.json, print the summary
MainCreateTilejson ==
    /\ pc = "tilejson"
    /\ LET r == create_tilejson(metadata, args.base_url)
       IN  IF r.raised = ""
           THEN /\ tilejsonFile' = <<r.tilejson>>
                /\ pc' = "done"
           ELSE /\ pc' = "exit_uncaught"
                /\ UNCHANGED tilejsonFile
    /\ UNCHANGED <<outDirExists, tilesDirExists, tileFiles, metadataJson,
                   nginxConf, viewerHtml, args, idx, metadata, prevTiles,
                   reqVars, restVars>>

----------------------------------------------------------------------------
(* The server's request handling as steps of the system                    *)

sTiles == <<"t", "i", "l", "e", "s">>
sContoursSeg == <<"c", "o", "n", "t", "o", "u", "r", "s">>

\* the request target {prefix}/{z}/{x}/{y}.pbf
TileTarget(prefix, z, x, y) ==
    <<"/">> \o prefix \o <<"/">> \o z \o <<"/">> \o x \o <<"/">> \o y \o sPbf

\* the requests the clients send while the setup script runs
ClientTargets ==
    { TileTarget(sTiles, <<"5">>, <<"1", "0">>, <<"2", "8">>),
      TileTarget(sTiles, <<"5">>, <<"1", "0">>, <<"3">>),
      TileTarget(sContoursSeg, <<"1">>, <<"0">>, <<"1">>) }

\* the files the handler's paths can lead to: those below tiles_dir and the
\* host's other files
ServedTree == tileFiles @@ hostFiles

\* one GET request, handled by do_GET against the files as they are now
HandleGET(target) ==
    /\ lastReq' = [method |-> "GET", target |-> target]
    /\ lastResp' = do_GET(ServedTree, Statics, target)
    /\ UNCHANGED <<fsVars, mainVars, restVars>>

\* one OPTIONS request
HandleOPTIONS ==
    /\ lastReq' = [method |-> "OPTIONS", target |-> <<"*">>]
    /\ lastResp' = do_OPTIONS
    /\ UNCHANGED <<fsVars, mainVars, restVars>>

InitFiles ==
    /\ outDirExists = FALSE
    /\ tilesDirExists = FALSE
    /\ tileFiles = NoFiles
    /\ metadataJson = <<>>
    /\ nginxConf = FALSE
    /\ tilejsonFile = <<>>
    /\ viewerHtml = FALSE

InitMain ==
    /\ pc = "idle"
    /\ args = [mbtiles |-> NoContainer, exists |-> FALSE, force |-> FALSE,
               base_url |-> DefaultBaseUrl]
    /\ idx = 0
    /\ metadata = EmptyMap
    /\ prevTiles = NoFiles

InitServer ==
    /\ lastReq = NoRequest
    /\ lastResp = NoResponse

InitPure ==
    /\ inp = <<>>
    /\ out = <<>>
    /\ pipe = NoPipeline
    /\ hostFiles = NoFiles

(* The setup script run any number of times against one output directory,  *)
(* with the server answering requests from that directory meanwhile.       *)
Init == InitFiles /\ InitMain /\ InitServer /\ InitPure

Next ==
    \/ \E c \in Containers, force \in BOOLEAN : MainStart(c, TRUE, force)
    \/ \E force \in BOOLEAN : MainStart(NoContainer, FALSE, force)
    \/ MainPrepare
    \/ ExtractBegin
    \/ ExtractRowOpen
    \/ ExtractRowWrite
    \/ ExtractWriteMetadata
    \/ MainWriteNginxConf
    \/ MainCreateTilejson
    \/ \E t \in ClientTargets : HandleGET(t)

Spec == Init /\ [][Next]_vars

----------------------------------------------------------------------------
(* The request routing on its own: every generated path against a served   *)
(* directory that is either empty or holds one extracted tile and the      *)
(* static files.                                                           *)

RouteSegs == {
    <<"t", "i", "l", "e", "s">>,
    <<"c", "o", "n", "t", "o", "u", "r", "s">>,
    <<"1">>,
    <<"a">>,
    <<"1", ".", "p", "b", "f">>,
    <<"n", "a", "m", "e", ".", "p", "b", "f">>,
    <<"1", ".", "p", "n", "g">>,
    <<".", ".">>,
    <<"t", "i", "l", "e", "j", "s", "o", "n", ".", "j", "s", "o", "n">>,
    <<"i", "n", "d", "e", "x", ".", "h", "t", "m", "l">>,
    <<"v", "i", "e", "w", "e", "r", ".", "h", "t", "m", "l">>,
    <<>> }

RECURSIVE JoinPath(_)
\* "/" before every segment
JoinPath(segs) ==
    IF segs = <<>> THEN <<>>
    ELSE <<"/">> \o Head(segs) \o JoinPath(Tail(segs))

\* request targets of up to MaxSegs segments that start with a single "/"
RouteTargets ==
    {sRoot}
    \cup { JoinPath(q) : q \in { r \in UNION { [1..n -> RouteSegs] : n \in 1..MaxSegs } :
                                 r[1] # <<>> } }
    \cup { TileTarget(sTiles, <<"1">>, <<"1">>, <<"1">>) \o <<"?", "v">> }

\* the tree extraction leaves for the one-row container (1, 1, 0, <<1>>)
RouteTree == Put(NoFiles, extract_tile_path(<<1, 1, 0, <<1>> >>), <<1>>)

\* a file name.pbf that lies in the parent directory of output_dir
HostTree == Put(NoFiles, <<sDotDot, sDotDot, <<"n", "a", "m", "e">> \o sPbf>>, <<7>>)

InitRoute ==
    /\ \/ InitFiles /\ hostFiles = NoFiles
       \/ /\ hostFiles = HostTree
          /\ outDirExists = TRUE
          /\ tilesDirExists = TRUE
          /\ tileFiles = RouteTree
          /\ metadataJson = <<EmptyMap>>
          /\ nginxConf = TRUE
          /\ tilejsonFile = <<create_tilejson(EmptyMap, DefaultBaseUrl).tilejson>>
          /\ viewerHtml = TRUE
    /\ InitMain
    /\ InitServer
    /\ inp \in RouteTargets
    /\ out = <<>>
    /\ pipe = NoPipeline

\* the one request of the run: a GET of the drawn target
RouteGET ==
    /\ lastReq = NoRequest
    /\ HandleGET(inp)

\* the one request of the run: an OPTIONS
RouteOPTIONS ==
    /\ lastReq = NoRequest
    /\ HandleOPTIONS

NextRoute == RouteGET \/ RouteOPTIONS

SpecRoute == InitRoute /\ [][NextRoute]_vars

----------------------------------------------------------------------------
(* extract_mbtiles_standard called again and again with one container and  *)
(* one destination, which is fresh or holds a tile left by something else  *)

LeftoverTree == Put(NoFiles, extract_tile_path(<<1, 0, 0, <<9>> >>), <<9>>)

\* what the last completed call left and returned
NoRun == [runs |-> 0, tiles |-> NoFiles, metadataJson |-> <<>>,
          metadata |-> EmptyMap]

InitIngest ==
    /\ outDirExists = TRUE
    /\ \/ tilesDirExists = FALSE /\ tileFiles = NoFiles
       \/ tilesDirExists = TRUE /\ tileFiles = LeftoverTree
    /\ metadataJson = <<>>
    /\ nginxConf = FALSE
    /\ tilejsonFile = <<>>
    /\ viewerHtml = FALSE
    /\ pc = "extract"
    /\ args \in { [mbtiles |-> c, exists |-> TRUE, force |-> FALSE,
                   base_url |-> DefaultBaseUrl] : c \in Containers }
    /\ idx = 0
    /\ metadata = EmptyMap
    /\ prevTiles = tileFiles
    /\ InitServer
    /\ inp = <<>>
    /\ out = NoRun
    /\ pipe = NoPipeline
    /\ hostFiles = NoFiles

\* the call has returned (the caller is at its next statement): note what
\* it left and returned, and call again with the same arguments
IngestAgain ==
    /\ pc = "nginx_conf"
    /\ out.runs + 1 < MaxRuns
    /\ out' = [runs |-> out.runs + 1, tiles |-> tileFiles,
               metadataJson |-> metadataJson, metadata |-> metadata]
    /\ pc' = "extract"
    /\ idx' = 0
    /\ metadata' = EmptyMap
    /\ UNCHANGED <<fsVars, args, prevTiles, reqVars, inp, pipe, hostFiles>>

NextIngest ==
    \/ ExtractBegin
    \/ ExtractRowOpen
    \/ ExtractRowWrite
    \/ ExtractWriteMetadata
    \/ IngestAgain

SpecIngest == InitIngest /\ [][NextIngest]_vars

----------------------------------------------------------------------------
(* run_contour_generation called again and again                           *)

InitPipeline ==
    /\ InitFiles /\ InitMain /\ InitServer
    /\ inp = <<>>
    /\ out = <<>>
    /\ pipe = NoPipeline
    /\ hostFiles = NoFiles

NextPipeline ==
    \/ \E area \in PipelineAreas, skip_download \in BOOLEAN :
           PipeStart(area, skip_download)
    \/ PipeUseCached
    \/ \E outcome \in ToolOutcomes : PipeDownloadTile(outcome)
    \/ PipeDownloadDone
    \/ \E outcome \in ToolOutcomes : PipeMosaic(outcome)
    \/ \E outcome \in ToolOutcomes : PipeWarp(outcome)
    \/ \E outcome \in ToolOutcomes : PipeContour(outcome)
    \/ \E outcome \in ToolOutcomes : PipeTippecanoe(outcome)
    \/ PipeAddMetadata
    \/ PipeWriteOsmDate
    \/ PipeToolNeverReturns

SpecPipeline == InitPipeline /\ [][NextPipeline]_vars

\* the interpreter keeps running the call: whatever can step does step
SpecPipelineFair == SpecPipeline /\ WF_vars(NextPipeline)

----------------------------------------------------------------------------
(* The row flip on its own                                                 *)

FlipInputs ==
    { [zoom |-> z, row |-> r] : z \in 0..MaxFlipZoom, r \in 0..(Pow2(MaxFlipZoom) - 1) }

InitFlip ==
    /\ InitFiles /\ InitMain /\ InitServer
    /\ inp \in { i \in FlipInputs : i.row < Pow2(i.zoom) }
    /\ out = <<>>
    /\ pipe = NoPipeline
    /\ hostFiles = NoFiles

\* flip the row, then flip the result again
ApplyFlip ==
    /\ out = <<>>
    /\ out' = <<flip_y(inp.zoom, inp.row), flip_y(inp.zoom, flip_y(inp.zoom, inp.row))>>
    /\ UNCHANGED <<fsVars, mainVars, reqVars, inp, pipe, hostFiles>>

NextFlip == ApplyFlip

SpecFlip == InitFlip /\ [][NextFlip]_vars

----------------------------------------------------------------------------
(* create_tilejson on its own: metadata maps as the metadata table can    *)
(* hold them, every key present or absent                                  *)

\* the texts found as values in the metadata table
MetadataTexts ==
    [ two |-> <<"2">>,
      twelve |-> <<"1", "2">>,
      abc |-> <<"a", "b", "c">>,
      unit_box |-> <<"-", "1", ",", "-", "1", ",", "1", ",", "1">>,
      three_fields |-> <<"-", "1", ",", "-", "1", ",", "1">>,
      monaco_box |-> <<"7", ".", "3", "8", ",", "4", "3", ".", "7", "1",
            ",", "7", ".", "4", "5", ",", "4", "3", ".", "7", "6">>,
      center |-> <<"7", ".", "4", ",", "4", "3", ".", "7", ",", "1", "0">>,
      two_fields |-> <<"0", ",", "0">>,
      json_layers |-> <<"{", "\"", "v", "e", "c", "t", "o", "r", "_", "l",
            "a", "y", "e", "r", "s", "\"", ":", "[", "{", "\"", "i", "d",
            "\"", ":", "\"", "c", "o", "n", "t", "o", "u", "r", "\"", "}",
            "]", "}">>,
      json_empty_object |-> <<"{", "}">>,
      json_other_key |-> <<"{", "\"", "a", "\"", ":", " ", "1", "}">>,
      json_truncated |-> <<"{">>,
      json_list |-> <<"[", "1", "]">>,
      json_null |-> <<"n", "u", "l", "l">>,
      json_number |-> <<"1", "2">> ]

\* per key: <<>> when the metadata table has no such row, <<value>> otherwise
CatalogChoices ==
    [name : {<<>>, <<"OpenFreeMap Contours">>},
     description : {<<>>, <<"Contour lines">>},
     attribution : {<<>>, <<"OpenFreeMap">>},
     scheme : {<<>>, <<"tms">>},
     minzoom : {<<>>, <<MetadataTexts.two>>, <<MetadataTexts.abc>>},
     maxzoom : {<<>>, <<MetadataTexts.twelve>>},
     bounds : {<<>>, <<MetadataTexts.unit_box>>, <<MetadataTexts.monaco_box>>, <<MetadataTexts.three_fields>>},
     center : {<<>>, <<MetadataTexts.center>>, <<MetadataTexts.two_fields>>},
     json : {<<>>, <<MetadataTexts.json_layers>>, <<MetadataTexts.json_empty_object>>, <<MetadataTexts.json_other_key>>,
             <<MetadataTexts.json_truncated>>, <<MetadataTexts.json_list>>, <<MetadataTexts.json_null>>, <<MetadataTexts.json_number>>}]

\* the dict built from the rows that are there
MapOf(choice) ==
    [k \in { j \in DOMAIN choice : Len(choice[j]) = 1 } |-> choice[k][1]]

CatalogInputs ==
    { [metadata |-> MapOf(c), base_url |-> b] :
        c \in CatalogChoices,
        b \in {DefaultBaseUrl, "https://tiles.example.com/contours"} }

NoDescriptor == [op |-> "none", result |-> create_tilejson(EmptyMap, "")]

InitCatalog ==
    /\ InitFiles /\ InitMain /\ InitServer
    /\ inp \in CatalogInputs
    /\ out = NoDescriptor
    /\ pipe = NoPipeline
    /\ hostFiles = NoFiles

\* create_tilejson(metadata, base_url, output_path)
WriteTilejson ==
    /\ out.op = "none"
    /\ out' = [op |-> "create_tilejson",
               result |-> create_tilejson(inp.metadata, inp.base_url)]
    /\ UNCHANGED <<fsVars, mainVars, reqVars, inp, pipe, hostFiles>>

NextCatalog == WriteTilejson

SpecCatalog == InitCatalog /\ [][NextCatalog]_vars

----------------------------------------------------------------------------
(* The coordinate conversion on its own                                    *)

\* sample longitudes, hundredths of a degree, -180 and 180 included
GridLons == {-18000, -9000, 0, 738, 18000}

\* sample latitudes: the poles, the Mercator limits and points between
GridLats == { LatIx("90.0"), LatIx("85.0511287798066"), LatIx("60.0"),
              LatIx("0.0"), LatIx("-60.0"), LatIx("-85.0511287798066"),
              LatIx("-90.0") }

\* download_terrain_tiles is called with the area boxes at zoom 10
AreaInputs ==
    { [bbox |-> CONTOUR_AREAS[a], zoom |-> 10] : a \in DOMAIN CONTOUR_AREAS }

GridInputs ==
    { [bbox |-> <<w, s, e, n>>, zoom |-> z] :
        w \in GridLons, s \in GridLats, e \in GridLons, n \in GridLats,
        z \in 0..MaxGeoZoom }

NoTiles == [op |-> "none", lat |-> 0, lon |-> 0, tile |-> <<0, 0>>, tiles |-> <<>>]

InitGeo ==
    /\ InitFiles /\ InitMain /\ InitServer
    /\ inp \in AreaInputs \cup GridInputs
    /\ out = NoTiles
    /\ pipe = NoPipeline
    /\ hostFiles = NoFiles

\* lat_lon_to_tile on one corner of the box
ConvertCorner ==
    /\ out.op = "none"
    /\ \E la \in {2, 4}, lo \in {1, 3} :
           out' = [op |-> "tile", lat |-> inp.bbox[la], lon |-> inp.bbox[lo],
                   tile |-> lat_lon_to_tile(inp.bbox[la], inp.bbox[lo], inp.zoom),
                   tiles |-> <<>>]
    /\ UNCHANGED <<fsVars, mainVars, reqVars, inp, pipe, hostFiles>>

\* get_tiles_for_bbox on the box
ConvertBbox ==
    /\ out.op = "none"
    /\ out' = [op |-> "bbox", lat |-> 0, lon |-> 0, tile |-> <<0, 0>>,
               tiles |-> get_tiles_for_bbox(inp.bbox, inp.zoom)]
    /\ UNCHANGED <<fsVars, mainVars, reqVars, inp, pipe, hostFiles>>

NextGeo == ConvertCorner \/ ConvertBbox

SpecGeo == InitGeo /\ [][NextGeo]_vars

----------------------------------------------------------------------------
(* Properties                                                              *)

Range(f) == { f[i] : i \in DOMAIN f }

SetMin(S) == CHOOSE m \in S : \A e \in S : m <= e
SetMax(S) == CHOOSE m \in S : \A e \in S : m >= e

\* values of the header `name` in a response
HeaderValues(resp, name) ==
    { h[2] : h \in { g \in Range(resp.headers) : g[1] = name } }

\* the text is a decimal integer literal: digits after an optional sign
IsIntText(s) ==
    LET d == IF s # <<>> /\ s[1] \in {"-", "+"} THEN Tail(s) ELSE s
    IN  d # <<>> /\ \A i \in 1..Len(d) : d[i] \in Range(Digits)

(* C2: for every zoom z >= 0 and row r with 0 <= r < 2^z, flipping twice    *)
(* gives r back and the flipped row lies in 0 .. 2^z - 1.                   *)
C2_FlipSelfInverseInRange ==
    out # <<>> =>
        /\ out[2] = inp.row
        /\ 0 <= out[1]
        /\ out[1] < Pow2(inp.zoom)

\* row 3 at zoom 5 has been flipped to 28 and back
C2_Witness ==
    /\ out # <<>>
    /\ inp.zoom = 5
    /\ inp.row = 3
    /\ out[1] = 28
    /\ out[2] = 3

(* C9: get_tiles_for_bbox returns exactly the rectangle spanned by the      *)
(* componentwise minimum and maximum of lat_lon_to_tile over the four       *)
(* corners of the box, also for a box given with west > east or             *)
(* south > north: min <= max on both axes, the list is non-empty and free   *)
(* of duplicates, and it holds the same tiles as the list of the            *)
(* normalized box.                                                          *)
C9_BboxIsCornerRectangle ==
    out.op = "bbox" =>
        LET b == inp.bbox
            z == inp.zoom
            corners == { lat_lon_to_tile(la, lo, z) : la \in {b[2], b[4]}, lo \in {b[1], b[3]} }
            cx == { c[1] : c \in corners }
            cy == { c[2] : c \in corners }
            rect == { <<z, x, y>> : x \in SetMin(cx)..SetMax(cx), y \in SetMin(cy)..SetMax(cy) }
            got == Range(out.tiles)
            \* latitudes are numbered north to south
            normal == << SetMin({b[1], b[3]}), SetMax({b[2], b[4]}),
                         SetMax({b[1], b[3]}), SetMin({b[2], b[4]}) >>
        IN  /\ got = rect
            /\ got # {}
            /\ Cardinality(got) = Len(out.tiles)
            /\ Range(get_tiles_for_bbox(normal, z)) = got

\* a box given with west > east and south north of north has been converted
\* into more than one tile
C9_Witness ==
    /\ out.op = "bbox"
    /\ inp.bbox[1] > inp.bbox[3]
    /\ inp.bbox[2] < inp.bbox[4]
    /\ Len(out.tiles) > 1

(* C10: for every zoom, every longitude in [-180, 180] and every latitude   *)
(* in the Mercator-projectable range, lat_lon_to_tile returns a column and  *)
(* a row in 0 .. 2^zoom - 1, and so does every tile of get_tiles_for_bbox   *)
(* for a box made of such coordinates.                                      *)
C10_TileAddressInRange ==
    LET n == Pow2(inp.zoom)
        inRange(v) == 0 <= v /\ v < n
        valid(lat, lon) == lon \in -18000..18000 /\ lat \in MercatorLats
    IN  /\ (out.op = "tile" /\ valid(out.lat, out.lon)) =>
                inRange(out.tile[1]) /\ inRange(out.tile[2])
        /\ (out.op = "bbox" /\ valid(inp.bbox[2], inp.bbox[1])
                            /\ valid(inp.bbox[4], inp.bbox[3])) =>
                \A t \in Range(out.tiles) : inRange(t[2]) /\ inRange(t[3])

\* the served address of a container row: <<z, x, 2^z - 1 - r>> as texts
ServedAt(row) == <<StrInt(row[1]), StrInt(row[2]), StrInt(Pow2(row[1]) - 1 - row[3])>>

RowsOf(c) == { c.tiles[i] : i \in DOMAIN c.tiles }

(* C1: after extract_mbtiles_standard has ingested a container, for every   *)
(* row (z, x, r, b) of it a GET of {prefix}/z/x/(2^z-1-r).pbf is answered   *)
(* with body b, the y of the request path being used as it is.              *)
C1_EveryRowServedAtFlippedPath ==
    pc = "done" =>
        \A row \in RowsOf(args.mbtiles), p \in {sTiles, sContoursSeg} :
            LET a == ServedAt(row)
                r == do_GET(tileFiles, Statics, TileTarget(p, a[1], a[2], a[3]))
            IN  r.status = 200 /\ r.entity = "tile" /\ r.body = row[4]

(* C3: ingesting a container whose tiles table has N rows into a fresh      *)
(* destination leaves exactly N tile files, each holding the tile_data of   *)
(* its row.                                                                 *)
C3_NRowsNFiles ==
    pc = "done" =>
        /\ Cardinality(DOMAIN tileFiles) = Len(args.mbtiles.tiles)
        /\ \A row \in RowsOf(args.mbtiles) :
              LET a == ServedAt(row)
                  k == <<a[1], a[2], a[3] \o sPbf>>
              IN  k \in DOMAIN tileFiles /\ tileFiles[k] = row[4]

\* the tile request targets the shapes of C4 are checked on
ProbeTargets ==
    { <<p, a[1], a[2], a[3]>> :
        p \in {sTiles, sContoursSeg},
        a \in { << <<"5">>, <<"1", "0">>, <<"2", "8">> >>,
                << <<"5">>, <<"1", "0">>, <<"3">> >>,
                << <<"1">>, <<"0">>, <<"1">> >>,
                << <<"1">>, <<"0">>, <<"0">> >>,
                << <<"a">>, <<"b">>, <<"c">> >> } }

TileHeaders(r) ==
    /\ HeaderValues(r, "Content-Type") = {"application/vnd.mapbox-vector-tile"}
    /\ HeaderValues(r, "Cache-Control") = {"public, max-age=31536000"}
    /\ HeaderValues(r, "Access-Control-Allow-Origin") = {"*"}

(* C4: a tile request for an address at which a file exists is answered     *)
(* 200 with the stored bytes, Content-Encoding: gzip, the vector-tile       *)
(* content type, long-lived public caching and CORS allow-all; for an       *)
(* address without a file it is answered 200, never 404, with an empty      *)
(* body, the same content type, caching and CORS headers and no             *)
(* Content-Encoding; no content is made up on a miss.                       *)
C4_TileResponseShapes ==
    /\ \A q \in ProbeTargets :
          LET r == do_GET(tileFiles, Statics, TileTarget(q[1], q[2], q[3], q[4]))
              k == <<q[2], q[3], q[4] \o sPbf>>
          IN  IF k \in DOMAIN tileFiles
              THEN /\ r.status = 200
                   /\ r.body = tileFiles[k]
                   /\ HeaderValues(r, "Content-Encoding") = {"gzip"}
                   /\ TileHeaders(r)
              ELSE /\ r.status = 200
                   /\ r.body = <<>>
                   /\ HeaderValues(r, "Content-Encoding") = {}
                   /\ HeaderValues(r, "Content-Length") = { <<"0">> }
                   /\ TileHeaders(r)
    /\ lastResp.entity = "tile" =>
          /\ lastResp.status = 200
          /\ HeaderValues(lastResp, "Content-Encoding") = {"gzip"}
          /\ TileHeaders(lastResp)
    /\ lastResp.entity = "empty tile" =>
          /\ lastResp.status = 200
          /\ lastResp.body = <<>>
          /\ HeaderValues(lastResp, "Content-Encoding") = {}
          /\ TileHeaders(lastResp)

\* the server has just answered a miss while another extracted tile, which
\* it would serve with its two bytes, is on disk
C4_Witness ==
    /\ lastReq.method = "GET"
    /\ lastResp.entity = "empty tile"
    /\ lastResp = do_GET(tileFiles, Statics, lastReq.target)
    /\ \E q \in ProbeTargets :
          LET r == do_GET(tileFiles, Statics, TileTarget(q[1], q[2], q[3], q[4]))
          IN  r.entity = "tile" /\ r.body = <<2, 3>>

\* the file the extraction has open for writing, if any
OpenFile ==
    IF pc = "row_write" THEN {extract_tile_path(args.mbtiles.tiles[idx])} ELSE {}

(* C5: once a tile file exists at an address, no later step changes its     *)
(* content in place: not a later row of the same extraction, not a later    *)
(* run into the same destination, not a request; its content changes only   *)
(* by the replacement of the whole tree.                                    *)
C5_NeverMutatedInPlace ==
    [][ \A k \in (DOMAIN tileFiles) \ OpenFile :
            \/ tileFiles' = NoFiles
            \/ k \in DOMAIN tileFiles' /\ tileFiles'[k] = tileFiles[k] ]_vars

RECURSIVE ExtractAll(_, _)
\* the tree the row loop of extract_mbtiles_standard leaves when run to the
\* end on the tree t
ExtractAll(rows, t) ==
    IF rows = <<>> THEN t
    ELSE ExtractAll(Tail(rows), Put(t, extract_tile_path(Head(rows)), Head(rows)[4]))

(* C6: a run is exposed to the server by one atomic swap, so every tile     *)
(* response given while a run is under way is the response of the tree as   *)
(* it was before the run or of the complete new tree, and never carries a   *)
(* truncated blob.                                                          *)
C6_ResponsesFromOldOrNewTree ==
    (lastReq.method = "GET" /\ lastResp.entity \in {"tile", "empty tile"}) =>
        \/ lastResp = do_GET(prevTiles, Statics, lastReq.target)
        \/ lastResp = do_GET(ExtractAll(args.mbtiles.tiles, NoFiles), Statics,
                             lastReq.target)

\* the request target holds no query
Plain(t) == \A i \in 1..Len(t) : t[i] # "?"

(* C7: a tile-prefixed request {prefix}/z/x/y.pbf in which one of z, x, y   *)
(* is not an integer is answered 404, and no request is answered with a     *)
(* server error.                                                            *)
C7_NonIntegerIs404 ==
    lastReq.method = "GET" =>
        /\ lastResp.status < 500
        /\ \A p \in {sTiles, sContoursSeg} :
              LET parts == Split(lastReq.target, "/")
              IN  ( /\ Plain(lastReq.target)
                    /\ Len(parts) = 5
                    /\ parts[1] = <<>>
                    /\ parts[2] = p
                    /\ EndsWith(parts[5], sPbf)
                    /\ \E i \in 3..5 :
                          ~IsIntText(IF i = 5 THEN SubSeq(parts[5], 1, Len(parts[5]) - 4)
                                     ELSE parts[i]) )
                  => lastResp.status = 404

\* the routes of C8
IsTileRoute(path) ==
    LET parts == Split(path, "/")
    IN  /\ Len(parts) = 5
        /\ parts[1] = <<>>
        /\ parts[2] \in {sTiles, sContoursSeg}
        /\ EndsWith(parts[5], sPbf)

(* C8: a GET path is a tile request only when it starts with /tiles or      *)
(* /contours and the rest is exactly {z}/{x}/{y}.pbf, a descriptor request  *)
(* when it is /tilejson.json, a viewer request when it is / or              *)
(* /index.html, and unmatched otherwise; unmatched paths, and tile-         *)
(* prefixed paths without the full z/x/y.pbf shape, get 404.                *)
C8_FourRoutes ==
    (lastReq.method = "GET" /\ Plain(lastReq.target)) =>
        LET path == lastReq.target
        IN  IF IsTileRoute(path)
            THEN lastResp.entity \in {"tile", "empty tile"}
            ELSE IF path = sTilejsonJson
            THEN lastResp.entity = "tilejson.json" \/ lastResp.status = 404
            ELSE IF path = sRoot \/ path = sIndexHtml
            THEN lastResp.entity = "viewer.html" \/ lastResp.status = 404
            ELSE lastResp.status = 404

----------------------------------------------------------------------------
(* The descriptor                                                          *)

StringDefaults ==
    [name |-> "Contour Tiles", description |-> "Elevation contour lines",
     version |-> "1.0.0", attribution |-> ""]

\* the key is present in the map with this text as its value
Holds(md, k, text) == k \in DOMAIN md /\ md[k] = text

\* the string fields of the descriptor come from the map, else the defaults
StringFieldsPopulated(md, doc) ==
    \A k \in DOMAIN StringDefaults :
        doc[k] = IF k \in DOMAIN md THEN md[k] ELSE StringDefaults[k]

\* the numeric texts of the map all parse
NumericFieldsParse(md) ==
    /\ "minzoom" \in DOMAIN md => ParseInt(md["minzoom"]).raised = ""
    /\ "maxzoom" \in DOMAIN md => ParseInt(md["maxzoom"]).raised = ""
    /\ "bounds" \in DOMAIN md => FloatList(md["bounds"]).raised = ""
    /\ "center" \in DOMAIN md => FloatList(md["center"]).raised = ""

(* C11: create_tilejson fills the descriptor from the metadata map through *)
(* the default table: name, description, version, attribution, minzoom,    *)
(* maxzoom, bounds and center take the map's value when the key is there   *)
(* (zooms as integers, bounds/center as float lists, here in hundredths)   *)
(* and else "Contour Tiles", "Elevation contour lines", "1.0.0", "", 0,    *)
(* 14, [-180,-85,180,85], [0,0,2]; scheme is "xyz" and tiles is            *)
(* [base_url + "/{z}/{x}/{y}.pbf"] whatever the map holds; without a json  *)
(* key vector_layers is []; with the defaults bounds has 4 entries, center *)
(* 3 and minzoom <= maxzoom; {minzoom:"2", maxzoom:"12",                   *)
(* bounds:"-1,-1,1,1"} gives minzoom 2, maxzoom 12, vector_layers [].      *)
C11_DescriptorFromDefaultTable ==
    out.op = "create_tilejson" =>
        LET md == inp.metadata
            r == out.result
            doc == out.result.tilejson
        IN  /\ ("json" \notin DOMAIN md /\ ~Holds(md, "minzoom", MetadataTexts.abc))
                   => r.raised = ""
            /\ r.raised = "" =>
                 /\ StringFieldsPopulated(md, doc)
                 /\ "minzoom" \notin DOMAIN md => doc.minzoom = 0
                 /\ Holds(md, "minzoom", MetadataTexts.two) => doc.minzoom = 2
                 /\ "maxzoom" \notin DOMAIN md => doc.maxzoom = 14
                 /\ Holds(md, "maxzoom", MetadataTexts.twelve) => doc.maxzoom = 12
                 /\ "bounds" \notin DOMAIN md
                        => doc.bounds = <<-18000, -8500, 18000, 8500>>
                 /\ Holds(md, "bounds", MetadataTexts.unit_box)
                        => doc.bounds = <<-100, -100, 100, 100>>
                 /\ Holds(md, "bounds", MetadataTexts.monaco_box)
                        => doc.bounds = <<738, 4371, 745, 4376>>
                 /\ "center" \notin DOMAIN md => doc.center = <<0, 0, 200>>
                 /\ Holds(md, "center", MetadataTexts.center)
                        => doc.center = <<740, 4370, 1000>>
                 /\ doc.scheme = "xyz"
                 /\ doc.tiles = << <<inp.base_url, "/{z}/{x}/{y}.pbf">> >>
                 /\ "json" \notin DOMAIN md => doc.vector_layers = JList(<<>>)
                 /\ (DOMAIN md \cap {"minzoom", "maxzoom", "bounds", "center"} = {})
                        => /\ Len(doc.bounds) = 4
                           /\ Len(doc.center) = 3
                           /\ doc.minzoom <= doc.maxzoom

\* the scenario map has been turned into its descriptor
C11_Witness ==
    /\ out.op = "create_tilejson"
    /\ DOMAIN inp.metadata = {"minzoom", "maxzoom", "bounds"}
    /\ inp.metadata["bounds"] = MetadataTexts.unit_box
    /\ out.result.raised = ""
    /\ out.result.tilejson.minzoom = 2
    /\ out.result.tilejson.maxzoom = 12
    /\ out.result.tilejson.vector_layers = JList(<<>>)

(* C12: every descriptor create_tilejson writes has bounds of exactly 4    *)
(* numbers and center of exactly 3; a metadata bounds or center with       *)
(* another number of comma-separated fields is reported as a failure and   *)
(* no descriptor with a list of the wrong length is written.               *)
C12_FixedArity ==
    out.op = "create_tilejson" =>
        LET md == inp.metadata
            r == out.result
        IN  /\ r.raised = "" => /\ Len(r.tilejson.bounds) = 4
                                /\ Len(r.tilejson.center) = 3
            /\ ("bounds" \in DOMAIN md /\ Len(Split(md["bounds"], ",")) # 4)
                   => r.raised # ""
            /\ ("center" \in DOMAIN md /\ Len(Split(md["center"], ",")) # 3)
                   => r.raised # ""

(* C13: whatever is stored under the json key, create_tilejson raises      *)
(* nothing on its account: a value that is not the text of a JSON object   *)
(* (invalid JSON, or a list, number or null) gives vector_layers == [] and *)
(* the other fields are still filled from the map and the defaults; an     *)
(* object gives its vector_layers entry, or [] when it has none.           *)
C13_NestedMetadataDegrades ==
    ( /\ out.op = "create_tilejson"
      /\ "json" \in DOMAIN inp.metadata
      /\ NumericFieldsParse(inp.metadata) ) =>
        LET md == inp.metadata
            r == out.result
            j == json_loads(md["json"])
        IN  /\ r.raised = ""
            /\ StringFieldsPopulated(md, r.tilejson)
            /\ r.tilejson.vector_layers =
                   IF j.raised = "" /\ j.value.t = "dict"
                   THEN json_get(j.value, sVectorLayers, JList(<<>>)).value
                   ELSE JList(<<>>)

----------------------------------------------------------------------------
(* Refusing and aborting                                                   *)

\* the step is a start of main
IsMainStart == ~Running /\ mainVars' # mainVars

\* the step takes something out of the output directory
RemovesOutput ==
    \/ tilesDirExists /\ ~tilesDirExists'
    \/ \E p \in DOMAIN tileFiles : p \notin DOMAIN tileFiles'
    \/ metadataJson # <<>> /\ metadataJson' = <<>>
    \/ nginxConf /\ ~nginxConf'
    \/ tilejsonFile # <<>> /\ tilejsonFile' = <<>>
    \/ viewerHtml /\ ~viewerHtml'

(* C14: with an existing non-empty output directory and no --force main    *)
(* ends in the fatal exit that names the directory, extracts nothing and   *)
(* leaves the directory as it was; with the container file absent main     *)
(* ends before producing or removing anything, --force or not; output is   *)
(* removed only with --force and an existing container.                    *)
C14_RefuseOrAbort ==
    [][ /\ (pc = "check_output" /\ outDirExists /\ OutputNotEmpty /\ ~args.force
              /\ pc' # pc)
            => (pc' = "exit_not_empty" /\ UNCHANGED fsVars)
        /\ (IsMainStart /\ ~args'.exists)
            => (pc' = "exit_input_missing" /\ UNCHANGED fsVars)
        /\ pc \in Exits => (UNCHANGED fsVars /\ (pc' = pc \/ IsMainStart))
        /\ RemovesOutput => (args.force /\ args.exists)
      ]_vars

\* main has refused a directory that holds tiles of an earlier run
C14_Witness ==
    /\ pc = "exit_not_empty"
    /\ ~args.force
    /\ DOMAIN tileFiles # {}
    /\ tileFiles = prevTiles

(* C15: a second call of extract_mbtiles_standard with the same container  *)
(* and the same destination leaves the tile paths, every file's bytes and  *)
(* metadata.json exactly as the first call left them and returns the same  *)
(* metadata map, which is the container's metadata unchanged.              *)
C15_IngestIdempotent ==
    (pc = "nginx_conf" /\ out.runs >= 1) =>
        /\ tileFiles = out.tiles
        /\ metadataJson = out.metadataJson
        /\ metadata = out.metadata
        /\ metadata = args.mbtiles.metadata
        /\ metadataJson = <<args.mbtiles.metadata>>

\* a second call over a two-row container has returned
C15_Witness ==
    /\ pc = "nginx_conf"
    /\ out.runs = 1
    /\ Len(args.mbtiles.tiles) = 2
    /\ Cardinality(DOMAIN tileFiles) = 2

----------------------------------------------------------------------------
(* The contour pipeline                                                    *)

\* the place of a tool in the order download, mosaic, contour extraction,
\* tile cutting
ToolRank(tool) ==
    CASE tool = "curl" -> 1
      [] tool = "gdalbuildvrt" -> 2
      [] tool = "gdalwarp" -> 3
      [] tool = "gdal_contour" -> 4
      [] tool = "tippecanoe" -> 5

(* C16: the pipeline runs terrain download, mosaic, contour extraction,    *)
(* tile cutting, metadata stamping and the date-marker write in this       *)
(* order, a step starting only after every earlier step succeeded; the     *)
(* first external tool call that exits non-zero, a single terrain-tile     *)
(* download included, aborts the run with nothing run after it, and the    *)
(* run folder stays; a run folder is returned only after all steps         *)
(* succeeded and then holds tiles.mbtiles and osm_date.                    *)
C16_OrderedAbortOnFirstFailure ==
    LET log == pipe.log
    IN  /\ \A i, j \in 1..Len(log) :
               i < j => ToolRank(log[i][1]) <= ToolRank(log[j][1])
        /\ \A i \in 1..Len(log) :
               log[i][2] = "nonzero"
                   => /\ i = Len(log)
                      /\ pipe.pc = "failed"
                      /\ pipe.date \in DOMAIN pipe.folders
        /\ pipe.pc \in {"metadata", "osm_date", "done"}
               => /\ \A i \in 1..Len(log) : log[i][2] = "ok"
                  /\ \E i \in 1..Len(log) : log[i][1] = "tippecanoe"
        /\ pipe.returned # 0
               => /\ pipe.pc = "done"
                  /\ {<<"", "tiles.mbtiles">>, <<"", "osm_date">>}
                         \subseteq pipe.folders[pipe.returned]

(* C17: with skip_download a run uses the terrain tiles cached by a        *)
(* previous run of the area: when an earlier run left terrain tiles on     *)
(* disk, the run finds them, goes on to the mosaic step with them and does *)
(* not fail with 'No cached terrain tiles found'.                          *)
C17_SkipDownloadFindsCache ==
    ( /\ pipe.skip_download
      /\ pipe.area \in DOMAIN CONTOUR_AREAS
      /\ pipe.left # {}
      /\ pipe.pc \notin {"idle", "cached"} )
        => /\ pipe.error # NoCachedTiles
           /\ CachedIn(pipe.folders[pipe.date]) = pipe.left

(* C18: no pipeline run blocks for ever: a run that has started ends, by   *)
(* returning or by an exception, also when an external tool never returns  *)
(* (its timeout expires and the step counts as failed).                    *)
C18_RunTerminates ==
    (~PipelineEnded) ~> PipelineEnded

----------------------------------------------------------------------------
(* Monotonicity of the conversion                                          *)

\* latitudes are positions in LatTable, which runs from north to south
NotSouthOf(lat1, lat2) == lat1 <= lat2

\* the longitudes and latitudes a converted corner is compared with
ComparedLons == GridLons \cup {573, 650, 653, 745, 750}
ComparedLats == DOMAIN LatTable

(* C19: at every zoom lat_lon_to_tile is monotonic: lon1 <= lon2 implies   *)
(* column(lon1) <= column(lon2) at a fixed latitude, lat1 >= lat2 implies  *)
(* row(lat1) <= row(lat2) at a fixed longitude; the column depends on the  *)
(* longitude only and the row on the latitude only.                        *)
C19_ConversionMonotonic ==
    out.op = "tile" =>
        /\ \A lon2 \in ComparedLons :
             LET t2 == lat_lon_to_tile(out.lat, lon2, inp.zoom)
             IN  /\ out.lon <= lon2 => out.tile[1] <= t2[1]
                 /\ lon2 <= out.lon => t2[1] <= out.tile[1]
                 /\ t2[2] = out.tile[2]
        /\ \A lat2 \in ComparedLats :
             LET t2 == lat_lon_to_tile(lat2, out.lon, inp.zoom)
             IN  /\ NotSouthOf(out.lat, lat2) => out.tile[2] <= t2[2]
                 /\ NotSouthOf(lat2, out.lat) => t2[2] <= out.tile[2]
                 /\ t2[1] = out.tile[1]

\* a corner has been converted whose column and row both differ from those
\* of a point further east and further south
C19_Witness ==
    /\ out.op = "tile"
    /\ inp.zoom = MaxGeoZoom
    /\ out.lon = 0
    /\ out.lat = LatIx("60.0")
    /\ out.tile[1] < lat_lon_to_tile(out.lat, 18000, inp.zoom)[1]
    /\ out.tile[2] < lat_lon_to_tile(LatIx("-60.0"), out.lon, inp.zoom)[2]

----------------------------------------------------------------------------
(* Confinement of the tile handler                                         *)

\* the z, x, y of the X-OFM-Debug header of a tile response that carries a
\* file's bytes
ServedAddress(resp) ==
    LET h == CHOOSE g \in Range(resp.headers) : g[1] = "X-OFM-Debug"
    IN  <<h[2][2], h[2][3], h[2][4]>>

(* C20: for every request path the file whose bytes a tile response        *)
(* returns lies inside tiles_dir at tiles_dir/z/x/y.pbf: no path, with     *)
(* ".." segments or an empty z segment as in /tiles/../../name.pbf, makes  *)
(* serve_tile read a file outside tiles_dir; and no GET or OPTIONS request *)
(* creates, modifies or deletes a file.                                    *)
C20_ConfinedReadOnly ==
    [][ lastReq' # lastReq =>
          /\ UNCHANGED <<fsVars, hostFiles>>
          /\ lastResp'.entity = "tile" =>
               LET a == ServedAddress(lastResp')
                   p == tile_path(a[1], a[2], a[3])
               IN  /\ tile_path_exists(tileFiles, p)
                   /\ lastResp'.body = read_tile(tileFiles, p)
                   /\ Resolve(hostFiles, p).path \notin DOMAIN hostFiles
      ]_vars

============================================================================
